---- MODULE Spec2Model ----
(***************************************************************************)
(* Model of the Tchai ledger (src/app.py): the transaction file tx.json,   *)
(* the key registry keys.json, the HTTP handlers add_transaction,          *)
(* register_public_key and verify_integrity, the read routes, the         *)
(* out-of-band edits of tx.json that the attack scripts under src/tests    *)
(* perform, the steps of add_transaction (checks, load, save) when         *)
(* requests of two clients interleave, and calls of the pure functions     *)
(* verify_signature, get_transaction_data_for_signing and compute_hash.    *)
(*                                                                         *)
(* Strings are TLA+ strings.  SHA-256 is idealised as a collision-free     *)
(* digest: the digest of a text is the text between "<" and ">", two       *)
(* characters that occur in no field value; RSA-PSS is idealised as a      *)
(* signature that verifies exactly under the key pair and message it was   *)
(* made with, for any salt.                                                *)
(***************************************************************************)
EXTENDS Integers, Sequences, FiniteSets, TLC

VARIABLES
    txs,    \* content of data/tx.json: the stored list of transactions
    keys,   \* content of data/keys.json: person -> public key (PEM)
    last,   \* the latest step taken and what it returned
    hist,   \* what has happened to the stores so far
    calls   \* the add_transaction requests in progress, per client

vars == <<txs, keys, last, hist, calls>>

-----------------------------------------------------------------------------
(* Bounds and input sets *)

MaxTx == 3
MaxLegacyTx == 2
\* The appends that succeed in a behaviour of interleaved requests.
MaxRaceTx == 3
\* Transactions a ledger holds at most where every route is exercised.
MaxStoreTx == 2
\* Transactions a ledger holds at most when it is rewritten.
MaxRewriteTx == 2

Parties == {"a", "b"}
Amounts == {1, 2}
\* Timestamps in increasing lexicographic (Python str) order.
Timestamps == <<"t1", "t2", "t3">>
\* A timestamp text that holds the delimiter; in str order it comes before
\* the others.
DelimitedTimestamp == "c|t1"
\* Every timestamp text, in increasing str order.
TimestampOrder == <<DelimitedTimestamp>> \o Timestamps
TimestampSet == {Timestamps[i] : i \in 1..Len(Timestamps)}

\* Key pairs, the PEM text of their public halves, and a text that is no PEM.
KeyPairs == {"K1", "K2"}
PublicPem(k) == "PEM:" \o k
ValidPems == {PublicPem(k) : k \in KeyPairs}
NotPem == "not-a-pem"
Salts == {"s1", "s2"}

\* The clients that may have an add_transaction request in progress.
Clients == {"c1", "c2"}

\* JSON null / Python None, as it appears in a response body.
None == "null"

-----------------------------------------------------------------------------
(* Pure functions of src/app.py *)

\* hashlib.sha256(data.encode("utf-8")).hexdigest(), collision-free.
sha256_hexdigest(data) == "<" \o data \o ">"

\* f"{a}" for an int amount.
format_amount(a) == ToString(a)

get_transaction_data_for_signing(p1, p2, t, a) ==
    p1 \o "|" \o p2 \o "|" \o t \o "|" \o format_amount(a)

\* Faulty variants of compute_hash: the amount left out of the hashed text,
\* and the fingerprint of version 2, not chained on prev_hash.
compute_hash_without_amount(p1, p2, t, a, prev_hash) ==
    sha256_hexdigest(p1 \o "|" \o p2 \o "|" \o t \o "|" \o prev_hash)

compute_hash_v2(p1, p2, t, a, prev_hash) ==
    sha256_hexdigest(p1 \o "|" \o p2 \o "|" \o t \o "|" \o format_amount(a))

compute_hash(p1, p2, t, a, prev_hash) ==
    sha256_hexdigest(p1 \o "|" \o p2 \o "|" \o t \o "|" \o format_amount(a)
                        \o "|" \o prev_hash)

\* private_key.sign(message, PSS(MGF1(SHA256), MAX_LENGTH), SHA256), base64:
\* a signature made with key pair k over message, with a random salt.
sign_transaction(k, message, salt) ==
    "sig(" \o k \o "," \o salt \o "," \o message \o ")"

\* Faulty variant of verify_signature: a signature made over the message
\* with any key pair verifies under any well-formed public key.
verify_signature_any_key(public_key_pem, message, signature_b64) ==
    /\ public_key_pem \in ValidPems
    /\ \E k \in KeyPairs, salt \in Salts :
          signature_b64 = sign_transaction(k, message, salt)

\* What a call or a block of code ends in: a returned value or an exception.
Returned(value) == [raised |-> FALSE, value |-> value]
Raised(exception) == [raised |-> TRUE, exception |-> exception]

\* serialization.load_pem_public_key(public_key_pem.encode('utf-8')): the key
\* the PEM text holds; ValueError on a text that is no PEM.
load_pem_public_key(public_key_pem) ==
    IF public_key_pem \in ValidPems
    THEN Returned(CHOOSE k \in KeyPairs : PublicPem(k) = public_key_pem)
    ELSE Raised("ValueError")

\* A text whose count of base64 characters no padding can complete.
NotBase64 == "A"

\* base64.b64decode(signature_b64): the signature bytes, here the text
\* itself; binascii.Error on a text that does not decode.
b64decode(signature_b64) ==
    IF signature_b64 = NotBase64
    THEN Raised("binascii.Error")
    ELSE Returned(signature_b64)

\* Faulty variant of public_key.verify: a signature over the message made
\* with any private key passes.
public_key_verify_any_key(k, signature, message) ==
    IF \E j \in KeyPairs, salt \in Salts :
          signature = sign_transaction(j, message, salt)
    THEN Returned(None)
    ELSE Raised("InvalidSignature")

\* public_key.verify(signature, message, PSS(...), SHA256()): returns None
\* for a signature made over this message with the private half of the key,
\* whatever its salt; InvalidSignature otherwise.
public_key_verify(k, signature, message) ==
    IF \E salt \in Salts : signature = sign_transaction(k, message, salt)
    THEN Returned(None)
    ELSE Raised("InvalidSignature")

\* The body of the try block of verify_signature (lines 96-113).
VerifySignatureTry(public_key_pem, message, signature_b64) ==
    LET public_key == load_pem_public_key(public_key_pem) IN
    IF public_key.raised THEN public_key
    ELSE LET signature == b64decode(signature_b64) IN
         IF signature.raised THEN signature
         ELSE LET verified == public_key_verify(public_key.value,
                                                signature.value, message) IN
              IF verified.raised THEN verified ELSE Returned(TRUE)

\* The exception classes the try block can end in.
Exceptions == {"ValueError", "binascii.Error", "InvalidSignature"}

\* Faulty variant of the except clause: except InvalidSignature.
ExceptInvalidSignature(exception) == exception = "InvalidSignature"

\* except Exception: (line 114)
ExceptException(exception) == exception \in Exceptions

\* A call of verify_signature: what it returns, or the exception that
\* leaves it.
VerifySignatureCall(public_key_pem, message, signature_b64) ==
    LET attempt == VerifySignatureTry(public_key_pem, message, signature_b64) IN
    IF ~attempt.raised THEN attempt
    ELSE IF ExceptException(attempt.exception) THEN Returned(FALSE)
    ELSE attempt

\* The value of verify_signature to the handlers that call it.
verify_signature(public_key_pem, message, signature_b64) ==
    LET call == VerifySignatureCall(public_key_pem, message, signature_b64) IN
    ~call.raised /\ call.value

\* keys.get(person)
get_public_key(ks, person) == IF person \in DOMAIN ks THEN ks[person] ELSE None

-----------------------------------------------------------------------------
(* sorted(txs, key=lambda tx: tx.get("t", "")): a stable sort on the       *)
(* timestamp text, given as the sequence of positions of txs in sorted     *)
(* order.                                                                  *)

\* Rank of a timestamp text in str order; "" sorts before every timestamp.
TimeRank(t) ==
    IF t = "" THEN 0
    ELSE CHOOSE i \in 1..Len(TimestampOrder) : TimestampOrder[i] = t

SortKey(tx) == TimeRank(IF "t" \in DOMAIN tx THEN tx.t ELSE "")

\* The positions of s whose key is k, in stored order.
RECURSIVE PositionsWithKey(_, _, _)
PositionsWithKey(s, k, i) ==
    IF i > Len(s) THEN <<>>
    ELSE (IF SortKey(s[i]) = k THEN <<i>> ELSE <<>>)
            \o PositionsWithKey(s, k, i + 1)

RECURSIVE SortedFromKey(_, _)
SortedFromKey(s, k) ==
    IF k > Len(TimestampOrder) THEN <<>>
    ELSE PositionsWithKey(s, k, 1) \o SortedFromKey(s, k + 1)

\* Faulty variant of SortOrder: the stored order, not sorted.
StoredOrder(s) == [k \in 1..Len(s) |-> k]

SortOrder(s) == SortedFromKey(s, 0)

sorted(s) == LET order == SortOrder(s) IN [k \in 1..Len(s) |-> s[order[k]]]

-----------------------------------------------------------------------------
(* verify_integrity: the loop over the sorted transactions.  The loop      *)
(* state is prev_hash, valid_txs and invalid_txs.                          *)

RequiredFields == {"p1", "p2", "t", "a"}

HasRequiredFields(tx) == \A field \in RequiredFields : field \in DOMAIN tx

\* tx.get("id")
TxId(tx) == IF "id" \in DOMAIN tx THEN tx.id ELSE None

\* computed_hash of one iteration (line 376)
ComputedHash(tx, prev_hash) == compute_hash(tx.p1, tx.p2, tx.t, tx.a, prev_hash)

\* Faulty variant of HashValid: the stored fingerprint is compared with the
\* fingerprint of version 2, not chained on prev_hash.
HashValidUnchained(tx, prev_hash) ==
    compute_hash_v2(tx.p1, tx.p2, tx.t, tx.a, prev_hash) = tx.h

\* hash_valid of one iteration (line 380)
HashValid(tx, prev_hash) == ComputedHash(tx, prev_hash) = tx.h

\* Faulty variant of SignatureValid: the audit of version 3, which checks
\* no signature.
SignatureValidV3(tx, ks) == TRUE

\* Faulty variant of SignatureValid: a signed transaction whose sender has
\* no registered key passes.
SignatureValidLenient(tx, ks) ==
    IF "signature" \in DOMAIN tx /\ get_public_key(ks, tx.p1) # None
    THEN verify_signature(get_public_key(ks, tx.p1),
             get_transaction_data_for_signing(tx.p1, tx.p2, tx.t, tx.a),
             tx.signature)
    ELSE TRUE

\* Faulty variant of SignatureValid: the signature is looked at only when
\* the stored fingerprint is the one of a chronologically first transaction.
SignatureValidIfFirst(tx, ks) ==
    IF "signature" \in DOMAIN tx /\ tx.h = ComputedHash(tx, "0")
    THEN /\ get_public_key(ks, tx.p1) # None
         /\ verify_signature(get_public_key(ks, tx.p1),
                get_transaction_data_for_signing(tx.p1, tx.p2, tx.t, tx.a),
                tx.signature)
    ELSE TRUE

\* Faulty variant of SignatureValid: the audit verifies the signature over
\* the message followed by the stored fingerprint.
SignatureValidOverHash(tx, ks) ==
    IF "signature" \in DOMAIN tx
    THEN /\ get_public_key(ks, tx.p1) # None
         /\ verify_signature(get_public_key(ks, tx.p1),
                get_transaction_data_for_signing(tx.p1, tx.p2, tx.t, tx.a)
                    \o "|" \o tx.h,
                tx.signature)
    ELSE TRUE

\* Faulty variant of SignatureValid: a record without a signature fails.
SignatureValidRequired(tx, ks) ==
    /\ "signature" \in DOMAIN tx
    /\ get_public_key(ks, tx.p1) # None
    /\ verify_signature(get_public_key(ks, tx.p1),
           get_transaction_data_for_signing(tx.p1, tx.p2, tx.t, tx.a),
           tx.signature)

\* signature_valid of one iteration (lines 383-392)
SignatureValid(tx, ks) ==
    IF "signature" \in DOMAIN tx
    THEN LET public_key_pem == get_public_key(ks, tx.p1)
         IN  IF public_key_pem # None
             THEN verify_signature(public_key_pem,
                      get_transaction_data_for_signing(tx.p1, tx.p2, tx.t, tx.a),
                      tx.signature)
             ELSE FALSE
    ELSE TRUE

\* Faulty variant of JoinReasons: the reason names the fingerprint whatever
\* failed.
JoinReasonsHashOnly(hash_valid, signature_valid) ==
    "Hash invalide ou chaine cassee"

\* "; ".join(reasons) (lines 399-408)
JoinReasons(hash_valid, signature_valid) ==
    IF ~hash_valid /\ ~signature_valid
    THEN "Hash invalide ou chaine cassee; Signature invalide ou cle publique manquante"
    ELSE IF ~hash_valid THEN "Hash invalide ou chaine cassee"
    ELSE IF ~signature_valid THEN "Signature invalide ou cle publique manquante"
    ELSE ""

\* Faulty variant of NextPrevHash: the audit goes on from the recomputed
\* fingerprint.
NextPrevHashComputed(prev_hash, computed_hash, stored_hash) == computed_hash

\* prev_hash for the next iteration after a transaction that passed the
\* structural checks (lines 397 and 417)
NextPrevHash(prev_hash, computed_hash, stored_hash) == stored_hash

\* Faulty variant of StructuralReason: the required fields are looked at
\* before the fingerprint.
StructuralReasonFieldsFirst(tx) ==
    IF ~HasRequiredFields(tx) THEN "Champs manquants pour le calcul du hash"
    ELSE IF "h" \notin DOMAIN tx THEN "Transaction v1 sans hash"
    ELSE ""

\* The reason of the structural checks (lines 355-372), "" for a
\* transaction that passes them.
StructuralReason(tx) ==
    IF "h" \notin DOMAIN tx THEN "Transaction v1 sans hash"
    ELSE IF ~HasRequiredFields(tx) THEN "Champs manquants pour le calcul du hash"
    ELSE ""

\* One iteration of the loop (lines 352-417).
VerifyBody(st, tx, ks) ==
    IF StructuralReason(tx) # ""
    THEN [st EXCEPT !.invalid_txs = Append(@,
              [id |-> TxId(tx), reason |-> StructuralReason(tx),
               transaction |-> tx])]
    ELSE LET computed_hash == ComputedHash(tx, st.prev_hash)
             stored_hash == tx.h
             hash_valid == HashValid(tx, st.prev_hash)
             signature_valid == SignatureValid(tx, ks)
         IN  IF hash_valid /\ signature_valid
             THEN [prev_hash |-> NextPrevHash(st.prev_hash, computed_hash, stored_hash),
                   valid_txs |-> Append(st.valid_txs, TxId(tx)),
                   invalid_txs |-> st.invalid_txs]
             ELSE [prev_hash |-> NextPrevHash(st.prev_hash, computed_hash, stored_hash),
                   valid_txs |-> st.valid_txs,
                   invalid_txs |-> Append(st.invalid_txs,
                      [id |-> TxId(tx),
                       reason |-> JoinReasons(hash_valid, signature_valid),
                       computed_hash |-> IF ~hash_valid THEN computed_hash ELSE None,
                       stored_hash |-> IF ~hash_valid THEN stored_hash ELSE None,
                       expected_prev_hash |-> IF ~hash_valid THEN st.prev_hash ELSE None,
                       signature_valid |-> IF "signature" \in DOMAIN tx
                                           THEN signature_valid ELSE None,
                       transaction |-> tx])]

\* Faulty variant of VerifyLoop: the audit stops at the first invalid
\* transaction.
RECURSIVE VerifyLoopAborting(_, _, _)
VerifyLoopAborting(sorted_txs, ks, k) ==
    IF k = 0
    THEN [prev_hash |-> "0", valid_txs |-> <<>>, invalid_txs |-> <<>>]
    ELSE LET st == VerifyLoopAborting(sorted_txs, ks, k - 1)
         IN  IF st.invalid_txs # <<>> THEN st
             ELSE VerifyBody(st, sorted_txs[k], ks)

\* The loop state after the first k transactions of sorted_txs.
RECURSIVE VerifyLoop(_, _, _)
VerifyLoop(sorted_txs, ks, k) ==
    IF k = 0
    THEN [prev_hash |-> "0", valid_txs |-> <<>>, invalid_txs |-> <<>>]
    ELSE VerifyBody(VerifyLoop(sorted_txs, ks, k - 1), sorted_txs[k], ks)

\* Faulty variant of ReportStatus: the status does not follow is_valid.
ReportStatusOK(is_valid) == "OK"

\* is_valid (line 420)
IsValid(invalid_txs) == Len(invalid_txs) = 0

\* status (line 421)
ReportStatus(is_valid) == IF is_valid THEN "OK" ELSE "KO"

\* The report verify_integrity returns (lines 343-432).
verify_integrity(stored, ks) ==
    LET sorted_txs == sorted(stored)
        st == VerifyLoop(sorted_txs, ks, Len(sorted_txs))
        is_valid == IsValid(st.invalid_txs)
    IN  [status |-> ReportStatus(is_valid),
         valid |-> is_valid,
         total_transactions |-> Len(stored),
         valid_count |-> Len(st.valid_txs),
         invalid_count |-> Len(st.invalid_txs),
         valid_transactions |-> st.valid_txs,
         invalid_transactions |-> st.invalid_txs]

-----------------------------------------------------------------------------
(* State *)

Init ==
    /\ txs = <<>>
    /\ keys = [p \in {} |-> None]
    /\ last = [op |-> "start"]
    /\ hist = [pristine |-> TRUE, monotone |-> TRUE, rekeyed |-> FALSE,
               added |-> <<>>, registered |-> [p \in {} |-> None]]
    /\ calls = [c \in Clients |-> [pc |-> "idle"]]

\* The greatest timestamp rank stored so far (0 for the empty ledger).
MaxStoredRank(s) ==
    IF s = <<>> THEN 0
    ELSE CHOOSE r \in {SortKey(s[i]) : i \in 1..Len(s)} :
            \A i \in 1..Len(s) : SortKey(s[i]) <= r

-----------------------------------------------------------------------------------------------------------------------------------------------------
(* POST /transactions (lines 166-245).  payload is the JSON body; now is   *)
(* what now_iso() returns when the body carries no timestamp.              *)

\* payload.get("t") or now_iso() (line 191)
RequestTime(payload, now) ==
    IF "t" \in DOMAIN payload /\ payload.t # "" THEN payload.t ELSE now

\* payload.get("signature") (line 194)
RequestSignature(payload) ==
    IF "signature" \in DOMAIN payload THEN payload.signature ELSE None

\* if signature: (lines 195 and 239) -- an empty text counts as none
HasSignature(payload) == RequestSignature(payload) \notin {None, ""}

\* The error add_transaction answers with before it reads the ledger
\* (lines 184-206), "" when the request passes.
RequestError(payload, now, ks) ==
    IF ~({"p1", "p2", "a"} \subseteq DOMAIN payload)
    THEN "Champs requis: p1, p2, a"
    ELSE IF ~HasSignature(payload) THEN ""
    ELSE IF get_public_key(ks, payload.p1) = None
    THEN "Cle publique non trouvee"
    ELSE IF ~verify_signature(get_public_key(ks, payload.p1),
                get_transaction_data_for_signing(payload.p1, payload.p2,
                    RequestTime(payload, now), payload.a),
                RequestSignature(payload))
    THEN "Signature invalide"
    ELSE ""

\* Faulty variant of ChainTail: the chronologically first transaction's
\* fingerprint instead of the last one's.
ChainTailFirst(stored) ==
    IF stored = <<>> THEN "0"
    ELSE LET sorted_txs == sorted(stored)
             first_tx == sorted_txs[1]
         IN  IF "h" \in DOMAIN first_tx THEN first_tx.h ELSE "0"

\* Faulty variant of ChainTail: the most recently appended transaction's
\* fingerprint.
ChainTailAppended(stored) ==
    IF stored = <<>> THEN "0"
    ELSE LET last_tx == stored[Len(stored)]
         IN  IF "h" \in DOMAIN last_tx THEN last_tx.h ELSE "0"

\* Faulty variant of ChainTail: the first transaction of a ledger is chained
\* on the empty text.
ChainTailGenesisEmpty(stored) ==
    IF stored = <<>> THEN ""
    ELSE LET sorted_txs == sorted(stored)
             last_tx == sorted_txs[Len(sorted_txs)]
         IN  IF "h" \in DOMAIN last_tx THEN last_tx.h ELSE "0"

\* prev_hash chosen by add_transaction (lines 217-223)
ChainTail(stored) ==
    IF stored = <<>> THEN "0"
    ELSE LET sorted_txs == sorted(stored)
             last_tx == sorted_txs[Len(sorted_txs)]
         IN  IF "h" \in DOMAIN last_tx THEN last_tx.h ELSE "0"

\* The transaction add_transaction builds from the list it loaded
\* (lines 213-240).
NewTransaction(loaded, payload, now) ==
    LET p1 == payload.p1
        p2 == payload.p2
        a == payload.a
        t == RequestTime(payload, now)
        tx_id == Len(loaded) + 1
        prev_hash == ChainTail(loaded)
        h == compute_hash(p1, p2, t, a, prev_hash)
    IN  IF HasSignature(payload)
        THEN [id |-> tx_id, p1 |-> p1, p2 |-> p2, a |-> a, t |-> t,
              h |-> h, signature |-> RequestSignature(payload)]
        ELSE [id |-> tx_id, p1 |-> p1, p2 |-> p2, a |-> a, t |-> t, h |-> h]

\* Faulty variant of StoreTransaction: the new transaction is put first.
StoreTransactionFirst(loaded, tx) == <<tx>> \o loaded

\* txs.append(tx) (line 243)
StoreTransaction(loaded, tx) == Append(loaded, tx)

\* What a successful append leaves in hist.
Appended(tx) ==
    [hist EXCEPT !.monotone = @ /\ TimeRank(tx.t) >= MaxStoredRank(txs),
                 !.added = Append(@, tx)]

\* The whole handler, run with no other request in between.
AddTransaction(payload, now) ==
    LET error == RequestError(payload, now, keys)
    IN  IF error # ""
        THEN /\ last' = [op |-> "add_transaction", code |-> 400,
                         error |-> error]
             /\ UNCHANGED <<txs, keys, hist, calls>>
        ELSE LET tx == NewTransaction(txs, payload, now)
             IN  /\ Len(txs) < MaxTx
                 /\ txs' = StoreTransaction(txs, tx)
                 /\ last' = [op |-> "add_transaction", code |-> 201, tx |-> tx,
                             prev_hash |-> ChainTail(txs)]
                 /\ hist' = Appended(tx)
                 /\ UNCHANGED <<keys, calls>>

-----------------------------------------------------------------------------
(* The same handler as the steps a client's request goes through when      *)
(* other requests run in between: the checks of the body, the read of      *)
(* tx.json (load_transactions), and the write of the extended list         *)
(* (save_transactions).  Nothing locks the file between the two.           *)

\* Faulty variant of save_transactions: the new transaction is added to
\* what the file holds at the time of the write.
save_transactions_merged(file, loaded) == Append(file, loaded[Len(loaded)])

\* TX_FILE.write_text(json.dumps(txs)) (lines 45-51): the file becomes the
\* list the handler holds, whatever it held.
save_transactions(file, loaded) == loaded

\* Lines 180-209: the body is read and checked; a request that fails is
\* answered at once.
ReceiveRequest(c, payload, now) ==
    /\ calls[c].pc = "idle"
    /\ LET error == RequestError(payload, now, keys)
       IN  IF error # ""
           THEN /\ calls' = [calls EXCEPT ![c] =
                       [pc |-> "done", payload |-> payload, now |-> now,
                        code |-> 400, error |-> error]]
                /\ last' = [op |-> "add_transaction", code |-> 400,
                            error |-> error]
           ELSE /\ calls' = [calls EXCEPT ![c] =
                       [pc |-> "load", payload |-> payload, now |-> now]]
                /\ UNCHANGED last
    /\ UNCHANGED <<txs, keys, hist>>

\* The requests that have loaded the list and not yet written it.
Writers == {c \in Clients : calls[c].pc = "save"}

\* Line 212: txs = load_transactions()
LoadTransactions(c) ==
    /\ calls[c].pc = "load"
    /\ Len(hist.added) + Cardinality(Writers) < MaxRaceTx
    /\ calls' = [calls EXCEPT ![c] =
            [pc |-> "save", payload |-> @.payload, now |-> @.now,
             loaded |-> txs]]
    /\ UNCHANGED <<txs, keys, last, hist>>

\* Lines 213-245: the transaction is built from the loaded list, appended
\* to it, the list is written and the transaction returned.
SaveTransactions(c) ==
    /\ calls[c].pc = "save"
    /\ LET loaded == calls[c].loaded
           tx == NewTransaction(loaded, calls[c].payload, calls[c].now)
       IN  /\ txs' = save_transactions(txs, StoreTransaction(loaded, tx))
           /\ calls' = [calls EXCEPT ![c] =
                   [pc |-> "done", payload |-> @.payload, now |-> @.now,
                    loaded |-> loaded, code |-> 201, tx |-> tx]]
           /\ last' = [op |-> "add_transaction", code |-> 201, tx |-> tx,
                       prev_hash |-> ChainTail(loaded)]
           /\ hist' = Appended(tx)
    /\ UNCHANGED keys

\* The client has its answer and may send another request.
CloseRequest(c) ==
    /\ calls[c].pc = "done"
    /\ calls' = [calls EXCEPT ![c] = [pc |-> "idle"]]
    /\ UNCHANGED <<txs, keys, last, hist>>

-----
(* POST /keys/<person> (lines 249-273) *)

\* Faulty variant of save_public_key: a party that has a key keeps it.
save_public_key_once(ks, person, public_key_pem) ==
    IF person \in DOMAIN ks THEN ks
    ELSE [p \in DOMAIN ks \cup {person} |->
             IF p = person THEN public_key_pem ELSE ks[p]]

\* save_public_key (lines 63-73): keys[person] = public_key_pem on the
\* loaded registry, written back whole.
save_public_key(ks, person, public_key_pem) ==
    [p \in DOMAIN ks \cup {person} |->
        IF p = person THEN public_key_pem ELSE ks[p]]

RegisterPublicKey(person, payload) ==
    \* if not public_key_pem: a missing or an empty text
    IF "public_key" \notin DOMAIN payload \/ payload.public_key = ""
    THEN /\ last' = [op |-> "register_public_key", code |-> 400,
                     error |-> "Champ requis: public_key (format PEM)"]
         /\ UNCHANGED <<txs, keys, hist, calls>>
    ELSE IF load_pem_public_key(payload.public_key).raised
    THEN /\ last' = [op |-> "register_public_key", code |-> 400,
                     error |-> "Cle publique invalide (format PEM attendu)"]
         /\ UNCHANGED <<txs, keys, hist, calls>>
    ELSE /\ keys' = save_public_key(keys, person, payload.public_key)
         /\ last' = [op |-> "register_public_key", code |-> 201, person |-> person]
         /\ hist' = [hist EXCEPT
                       !.rekeyed = @ \/ (person \in DOMAIN keys
                                          /\ keys[person] # payload.public_key),
                       !.registered =
                           [p \in DOMAIN @ \cup {person} |->
                               IF p = person THEN payload.public_key ELSE @[p]]]
         /\ UNCHANGED <<txs, calls>>

\* GET /keys/<person> (lines 277-287)
GetPersonPublicKey(person) ==
    LET public_key_pem == get_public_key(keys, person) IN
    /\ last' = IF public_key_pem = None \/ public_key_pem = ""
               THEN [op |-> "get_person_public_key", code |-> 404,
                     person |-> person]
               ELSE [op |-> "get_person_public_key", code |-> 200,
                     person |-> person, public_key |-> public_key_pem]
    /\ UNCHANGED <<txs, keys, hist, calls>>

-----------------------------------------------------------------------------
(* GET /verify (lines 335-432) *)

\* Faulty variant of verify_integrity: the audit rewrites tx.json, keeping
\* the transactions it found valid.
VerifyIntegrityRepairing ==
    LET report == verify_integrity(txs, keys) IN
    /\ last' = [op |-> "verify_integrity", code |-> 200, report |-> report]
    /\ txs' = SelectSeq(txs, LAMBDA tx :
                 \E n \in 1..Len(report.valid_transactions) :
                     report.valid_transactions[n] = TxId(tx))
    /\ UNCHANGED <<keys, hist, calls>>

VerifyIntegrity ==
    /\ last' = [op |-> "verify_integrity", code |-> 200,
                report |-> verify_integrity(txs, keys)]
    /\ UNCHANGED <<txs, keys, hist, calls>>

-----------------------------------------------------------------------------
(* GET /transactions, /transactions/<person>, /balance/<person>            *)
(* (lines 291-331). A field read with tx["..."] on a record that lacks it  *)
(* raises KeyError, which Flask answers with code 500.                     *)

\* tx.get(field)
TxGet(tx, field) == IF field \in DOMAIN tx THEN tx[field] ELSE None

\* sorted(load_transactions(), key=lambda tx: tx["t"])
SortedByTimestamp(stored) ==
    IF \E i \in 1..Len(stored) : "t" \notin DOMAIN stored[i]
    THEN Raised("KeyError")
    ELSE Returned(sorted(stored))

ListTransactions ==
    LET sorted_txs == SortedByTimestamp(txs) IN
    /\ last' = IF sorted_txs.raised
               THEN [op |-> "list_transactions", code |-> 500]
               ELSE [op |-> "list_transactions", code |-> 200,
                     body |-> sorted_txs.value]
    /\ UNCHANGED <<txs, keys, hist, calls>>

\* tx["p1"] == person or tx["p2"] == person
Involves(tx, person) ==
    IF "p1" \notin DOMAIN tx THEN Raised("KeyError")
    ELSE IF tx.p1 = person THEN Returned(TRUE)
    ELSE IF "p2" \notin DOMAIN tx THEN Raised("KeyError")
    ELSE Returned(tx.p2 = person)

ListTransactionsForPerson(person) ==
    LET sorted_txs == SortedByTimestamp(txs) IN
    /\ last' =
          IF sorted_txs.raised
          THEN [op |-> "list_transactions_for_person", code |-> 500]
          ELSE IF \E i \in 1..Len(txs) : Involves(txs[i], person).raised
          THEN [op |-> "list_transactions_for_person", code |-> 500]
          ELSE [op |-> "list_transactions_for_person", code |-> 200,
                body |-> SelectSeq(sorted_txs.value,
                                   LAMBDA tx : Involves(tx, person).value)]
    /\ UNCHANGED <<txs, keys, hist, calls>>

\* sum(tx["a"] for tx in txs if tx.get(field) == person)
RECURSIVE SumAmounts(_, _, _)
SumAmounts(stored, field, person) ==
    IF stored = <<>> THEN 0
    ELSE (IF TxGet(Head(stored), field) = person THEN Head(stored).a ELSE 0)
            + SumAmounts(Tail(stored), field, person)

\* Faulty variant of BalanceOf: a transfer from a party to itself is counted
\* as sent only.
BalanceOfElif(stored, person) ==
    IF stored = <<>> THEN 0
    ELSE (IF TxGet(Head(stored), "p1") = person THEN 0 - Head(stored).a
          ELSE IF TxGet(Head(stored), "p2") = person THEN Head(stored).a
          ELSE 0)
            + SumAmounts(Tail(stored), "p2", person)
            - SumAmounts(Tail(stored), "p1", person)

\* incoming - outgoing (lines 327-331)
BalanceOf(stored, person) ==
    SumAmounts(stored, "p2", person) - SumAmounts(stored, "p1", person)

Balance(person) ==
    /\ last' =
          IF \E i \in 1..Len(txs) :
                /\ "a" \notin DOMAIN txs[i]
                /\ person \in {TxGet(txs[i], "p1"), TxGet(txs[i], "p2")}
          THEN [op |-> "balance", code |-> 500]
          ELSE [op |-> "balance", code |-> 200, person |-> person,
                balance |-> BalanceOf(txs, person)]
    /\ UNCHANGED <<txs, keys, hist, calls>>

-----------------------------------------------------------------------------
(* Out-of-band edits of data/tx.json, as the attack scripts make them:     *)
(* the file is read, the list is changed and written back.  Each edit      *)
(* records the list it found.                                              *)

\* attack_change_amount.py, test_modification_attack: one field of one
\* stored transaction is overwritten, nothing else is touched.
TamperField(i, field, value) ==
    /\ hist.pristine
    /\ i \in 1..Len(txs)
    /\ field \in DOMAIN txs[i]
    /\ value # txs[i][field]
    /\ txs' = [txs EXCEPT ![i] = [@ EXCEPT ![field] = value]]
    /\ last' = [op |-> "tamper_field", before |-> txs, index |-> i, field |-> field]
    /\ hist' = [hist EXCEPT !.pristine = FALSE]
    /\ UNCHANGED <<keys, calls>>

\* txs.remove(target_tx)
RemoveAt(s, i) == SubSeq(s, 1, i - 1) \o SubSeq(s, i + 1, Len(s))

\* attack_delete_transaction.py, test_deletion_attack
DeleteTransaction(i) ==
    /\ hist.pristine
    /\ i \in 1..Len(txs)
    /\ txs' = RemoveAt(txs, i)
    /\ last' = [op |-> "tamper_delete", before |-> txs, index |-> i]
    /\ hist' = [hist EXCEPT !.pristine = FALSE]
    /\ UNCHANGED <<keys, calls>>

\* The stored list written back in another order, every record unchanged.
ReorderTransactions(perm) ==
    /\ hist.pristine
    /\ perm \in Permutations(1..Len(txs))
    /\ \E k \in 1..Len(txs) : perm[k] # k
    /\ txs' = [k \in 1..Len(txs) |-> txs[perm[k]]]
    /\ last' = [op |-> "tamper_reorder", before |-> txs, perm |-> perm]
    /\ hist' = [hist EXCEPT !.pristine = FALSE]
    /\ UNCHANGED <<keys, calls>>

\* max(tx.get("id", 0) for tx in txs)
MaxId(s) ==
    CHOOSE m \in {s[i].id : i \in 1..Len(s)} : \A i \in 1..Len(s) : s[i].id <= m

FakeIdOffset == 1000
FakeAmount == 1000
Attacker == "attacker"

\* txs.insert(index, x)
InsertAt(s, index, x) == SubSeq(s, 1, index) \o <<x>> \o SubSeq(s, index + 1, Len(s))

\* attack_insert_transaction.py: a forged transaction from the sender of
\* the chronologically first transaction to the attacker, fingerprinted on
\* the first transaction's fingerprint and stored right after it.  The
\* script gives it the first transaction's timestamp; here any timestamp t.
InsertTransaction(t) ==
    /\ hist.pristine
    /\ Len(txs) >= 2
    /\ Len(txs) < MaxTx
    /\ LET sorted_txs == sorted(txs)
           first_tx == sorted_txs[1]
           victim == first_tx.p1
           prev_hash == IF "h" \in DOMAIN first_tx THEN first_tx.h ELSE "0"
           fake_tx == [id |-> MaxId(txs) + FakeIdOffset,
                       p1 |-> victim, p2 |-> Attacker, a |-> FakeAmount, t |-> t,
                       h |-> compute_hash(victim, Attacker, t, FakeAmount, prev_hash)]
           first_index == CHOOSE i \in 1..Len(txs) :
                             /\ txs[i].id = first_tx.id
                             /\ \A j \in 1..(i - 1) : txs[j].id # first_tx.id
       IN  /\ txs' = InsertAt(txs, first_index, fake_tx)
           /\ last' = [op |-> "tamper_insert", before |-> txs, fake_tx |-> fake_tx,
                       index |-> first_index + 1]
    /\ hist' = [hist EXCEPT !.pristine = FALSE]
    /\ UNCHANGED <<keys, calls>>

\* del tx[field] for some fields: a record left without them (a record of
\* an older version, or a damaged one).
RemoveFields(i, fields) ==
    /\ hist.pristine
    /\ i \in 1..Len(txs)
    /\ fields # {}
    /\ fields \subseteq DOMAIN txs[i] \ {"id"}
    /\ txs' = [txs EXCEPT ![i] = [f \in DOMAIN @ \ fields |-> @[f]]]
    /\ last' = [op |-> "tamper_remove_fields", before |-> txs, index |-> i,
                fields |-> fields]
    /\ hist' = [hist EXCEPT !.pristine = FALSE]
    /\ UNCHANGED <<keys, calls>>

\* The stored list with the fingerprints of the records in the chronological
\* places n, n + 1, ... recomputed in that order with compute_hash, each
\* chained on the fingerprint then stored in the place before it.
RECURSIVE Rechain(_, _, _)
Rechain(stored, order, n) ==
    IF n > Len(order) THEN stored
    ELSE LET tx == stored[order[n]]
             prev_hash == IF n = 1 THEN "0" ELSE stored[order[n - 1]].h
         IN  Rechain([stored EXCEPT ![order[n]].h =
                         compute_hash(tx.p1, tx.p2, tx.t, tx.a, prev_hash)],
                     order, n + 1)

\* tx with the fields of patch set to the values of patch.
Patched(tx, patch) ==
    [f \in DOMAIN tx |-> IF f \in DOMAIN patch THEN patch[f] ELSE tx[f]]

\* A rewrite of tx.json by someone who knows compute_hash: fields of the
\* i-th record are changed, and the fingerprint of that record and of every
\* chronologically later one is recomputed along the chain.
RewriteChain(i, patch) ==
    /\ hist.pristine
    /\ i \in 1..Len(txs)
    /\ DOMAIN patch # {}
    /\ DOMAIN patch \subseteq RequiredFields
    /\ \A f \in DOMAIN patch : patch[f] # txs[i][f]
    /\ LET edited == [txs EXCEPT ![i] = Patched(@, patch)]
           order == SortOrder(edited)
           place == CHOOSE n \in 1..Len(order) : order[n] = i
       IN  txs' = Rechain(edited, order, place)
    /\ last' = [op |-> "tamper_rewrite", before |-> txs, index |-> i,
                fields |-> DOMAIN patch]
    /\ hist' = [hist EXCEPT !.pristine = FALSE]
    /\ UNCHANGED <<keys, calls>>

-----------------------------------------------------------------------------
(* Requests *)

\* The message a client signs for a payload (utils/sign_transaction.py).
SignedMessage(p1, p2, t, a) == p1 \o "|" \o p2 \o "|" \o t \o "|" \o format_amount(a)

\* Two transfers, at any timestamp.
Transfers == {[p1 |-> "a", p2 |-> "b", a |-> 1], [p1 |-> "b", p2 |-> "a", a |-> 2]}

TimedPayloads ==
    {[p1 |-> u.p1, p2 |-> u.p2, a |-> u.a, t |-> t] :
        u \in Transfers, t \in TimestampSet}

\* The same transfers without a timestamp: the server stamps them.
UntimedPayloads == Transfers

FieldValues(field) ==
    IF field \in {"p1", "p2"} THEN Parties
    ELSE IF field = "a" THEN Amounts
    ELSE IF field = "t" THEN TimestampSet
    ELSE {}

AddRequest ==
    \/ \E payload \in TimedPayloads : AddTransaction(payload, None)
    \/ \E payload \in UntimedPayloads, now \in TimestampSet :
          AddTransaction(payload, now)

Tamper ==
    \/ \E i \in 1..MaxTx, field \in RequiredFields :
          \E value \in FieldValues(field) : TamperField(i, field, value)
    \/ \E i \in 1..MaxTx : DeleteTransaction(i)
    \/ \E perm \in Permutations(1..Len(txs)) : ReorderTransactions(perm)
    \/ \E t \in TimestampSet : InsertTransaction(t)

\* Appends, then one out-of-band edit of the transaction file, and audits.
Next ==
    \/ hist.pristine /\ AddRequest
    \/ Tamper
    \/ VerifyIntegrity

Spec == Init /\ [][Next]_vars

\* Signed requests: a transfer from "a" at one of the first two timestamps,
\* signed by a client holding key pair k over the payload's own fields, or
\* over the same transfer with another amount, or carrying a text that is
\* no signature, or an empty one.
SignedTimes == {Timestamps[1], Timestamps[2]}

SignedPayloads ==
    {[p1 |-> "a", p2 |-> "b", a |-> 1, t |-> t,
      signature |-> sign_transaction(k, SignedMessage("a", "b", t, 1), "s1")] :
        t \in SignedTimes, k \in KeyPairs}
    \cup {[p1 |-> "a", p2 |-> "b", a |-> 1, t |-> t,
           signature |-> sign_transaction(k, SignedMessage("a", "b", t, 2), "s2")] :
            t \in SignedTimes, k \in KeyPairs}
    \cup {[p1 |-> "a", p2 |-> "b", a |-> 1, t |-> "t1", signature |-> "AAAA"],
          [p1 |-> "a", p2 |-> "b", a |-> 1, t |-> "t2", signature |-> ""]}

UnsignedFromB == {[p1 |-> "b", p2 |-> "a", a |-> 2, t |-> t] : t \in SignedTimes}

IncompletePayloads == {[p1 |-> "a", p2 |-> "b"]}

KeyPayloads ==
    {[public_key |-> pem] : pem \in ValidPems \cup {NotPem}} \cup {[other |-> "x"]}

\* The parties that register keys.
Signers == {"a"}

SignedAddRequest ==
    \E payload \in SignedPayloads \cup UnsignedFromB \cup IncompletePayloads :
        AddTransaction(payload, None)

KeyRequest ==
    \E person \in Signers, payload \in KeyPayloads : RegisterPublicKey(person, payload)

\* Key registrations, signed and unsigned appends, and audits.
NextSigned ==
    \/ SignedAddRequest
    \/ KeyRequest
    \/ VerifyIntegrity

SpecSigned == Init /\ [][NextSigned]_vars

\* The sets of fields a damaged record lacks: one field, or the
\* fingerprint and one of the required fields.
RemovedFields ==
    {{field} : field \in RequiredFields \cup {"h", "signature"}}
        \cup {{"h", field} : field \in RequiredFields}

\* Transfers from "a" signed over their own fields, and unsigned ones
\* from "b".
LegacyPayloads ==
    {[p1 |-> "a", p2 |-> "b", a |-> 1, t |-> t,
      signature |-> sign_transaction(k, SignedMessage("a", "b", t, 1), "s1")] :
        t \in SignedTimes, k \in KeyPairs}
    \cup UnsignedFromB

LegacyAddRequest ==
    \E payload \in LegacyPayloads : AddTransaction(payload, None)

\* Key registrations, appends and audits on a ledger of at most MaxLegacyTx
\* transactions, and one out-of-band edit of the transaction file: a
\* record left without some of its fields, or given another sender.
NextLegacy ==
    \/ Len(txs) < MaxLegacyTx /\ LegacyAddRequest
    \/ KeyRequest
    \/ VerifyIntegrity
    \/ \E i \in 1..MaxLegacyTx, fields \in RemovedFields : RemoveFields(i, fields)
    \/ \E i \in 1..MaxLegacyTx, value \in Parties : TamperField(i, "p1", value)

SpecLegacy == Init /\ [][NextLegacy]_vars

\* Requests of two clients that run step by step, in any interleaving: a
\* transfer from "a" signed with K1, and an unsigned transfer from "b"; "a"
\* registers the public half of K1 or of K2.
RacePayloads ==
    {[p1 |-> "a", p2 |-> "b", a |-> 1, t |-> "t1",
      signature |-> sign_transaction("K1", SignedMessage("a", "b", "t1", 1), "s1")],
     [p1 |-> "b", p2 |-> "a", a |-> 2, t |-> "t2"]}

RaceKeyRequest ==
    \E pem \in ValidPems : RegisterPublicKey("a", [public_key |-> pem])

NextRace ==
    \/ \E c \in Clients, payload \in RacePayloads : ReceiveRequest(c, payload, None)
    \/ \E c \in Clients : LoadTransactions(c)
    \/ \E c \in Clients : SaveTransactions(c)
    \/ \E c \in Clients : CloseRequest(c)
    \/ RaceKeyRequest

SpecRace == Init /\ [][NextRace]_vars

\* Every route on a small store: unsigned appends (one of them a transfer
\* from "a" to "a") to a ledger of at most
\* MaxStoreTx transactions, before and after one out-of-band edit (a record
\* deleted, or left without its timestamp or its amount), key
\* registrations for both parties, and the read routes.
StorePayloads ==
    {[p1 |-> "a", p2 |-> "a", a |-> 1, t |-> "t1"],
     [p1 |-> "b", p2 |-> "a", a |-> 2, t |-> "t2"]}

StoreKeyPayloads == KeyPayloads \cup {[public_key |-> ""]}

NextStore ==
    \/ Len(txs) < MaxStoreTx
          /\ \E payload \in StorePayloads : AddTransaction(payload, None)
    \/ \E person \in Parties, payload \in StoreKeyPayloads :
          RegisterPublicKey(person, payload)
    \/ \E i \in 1..MaxStoreTx : DeleteTransaction(i)
    \/ \E i \in 1..MaxStoreTx, field \in {"t", "a"} : RemoveFields(i, {field})
    \/ VerifyIntegrity
    \/ ListTransactions
    \/ \E person \in Parties : ListTransactionsForPerson(person)
    \/ \E person \in Parties : Balance(person)
    \/ \E person \in Parties : GetPersonPublicKey(person)

SpecStore == Init /\ [][NextStore]_vars

\* Appends of unsigned transfers and of transfers from "a" to the party
\* "b|c" signed with K1, to a ledger of at most MaxRewriteTx transactions,
\* key registrations of "a", then one rewrite with recomputed fingerprints:
\* of one field, or of the recipient and the timestamp together.
RewritePayloads ==
    {[p1 |-> u.p1, p2 |-> u.p2, a |-> u.a, t |-> t] :
        u \in Transfers, t \in SignedTimes}
        \cup {[p1 |-> "a", p2 |-> "b|c", a |-> 1, t |-> t,
               signature |-> sign_transaction(
                   "K1", SignedMessage("a", "b|c", t, 1), "s1")] :
                t \in SignedTimes}

Patches ==
    {[p1 |-> v] : v \in Parties} \cup {[p2 |-> v] : v \in Parties}
        \cup {[a |-> v] : v \in Amounts} \cup {[t |-> v] : v \in TimestampSet}
        \cup {[p2 |-> "b", t |-> DelimitedTimestamp]}

NextRewrite ==
    \/ Len(txs) < MaxRewriteTx
          /\ \E payload \in RewritePayloads : AddTransaction(payload, None)
    \/ RaceKeyRequest
    \/ \E i \in 1..MaxRewriteTx, patch \in Patches : RewriteChain(i, patch)
    \/ VerifyIntegrity

SpecRewrite == Init /\ [][NextRewrite]_vars

-----------------------------------------------------------------------------
(* What an audit of a stored list says, for the properties below *)

Audit(stored) == verify_integrity(stored, keys)

Intact(stored) == Audit(stored).valid

\* The entries of report r about the stored record tx.
EntriesFor(r, tx) ==
    {e \in {r.invalid_transactions[i] : i \in 1..Len(r.invalid_transactions)} :
        e.transaction = tx}

\* r lists tx as invalid because its recomputed fingerprint differs from
\* the stored one.
ReportedHashInvalid(r, tx) ==
    \E e \in EntriesFor(r, tx) :
        /\ "computed_hash" \in DOMAIN e
        /\ e.computed_hash # None
        /\ e.stored_hash = tx.h
        /\ e.computed_hash # e.stored_hash

\* r lists tx as valid.
ReportedValid(r, tx) ==
    /\ EntriesFor(r, tx) = {}
    /\ \E i \in 1..Len(r.valid_transactions) : r.valid_transactions[i] = tx.id

\* The place of the stored position i in chronological order.
ChronoPlace(stored, i) ==
    LET order == SortOrder(stored)
    IN  CHOOSE k \in 1..Len(order) : order[k] = i

\* Every transaction carries the fingerprint of its fields chained on the
\* fingerprint of its chronological predecessor ("0" for the first).
ChainedOnPredecessor(stored) ==
    LET st == sorted(stored)
    IN  \A k \in 1..Len(st) :
            st[k].h = compute_hash(st[k].p1, st[k].p2, st[k].t, st[k].a,
                                   IF k = 1 THEN "0" ELSE st[k - 1].h)

-----------------------------------------------------------------------------
(* C1: in every ledger built from the empty one by successful              *)
(* add_transaction calls only, whatever timestamps the callers supply,     *)
(* every transaction is fingerprinted on its chronological predecessor     *)
(* and the chronologically first on "0".                                   *)
C1_AppendsKeepChain == hist.pristine => ChainedOnPredecessor(txs)

(* C2: after one of sender, recipient, timestamp or amount of one stored   *)
(* transaction of an intact ledger is changed and no fingerprint is        *)
(* touched, the audit lists that transaction as invalid with a computed    *)
(* fingerprint different from the stored one, and the status is KO.        *)
C2_MutationDetected ==
    (last.op = "tamper_field" /\ Intact(last.before)) =>
        LET r == Audit(txs)
        IN  /\ r.status = "KO"
            /\ ~r.valid
            /\ ReportedHashInvalid(r, txs[last.index])

C2_Witness ==
    /\ last.op = "tamper_field"
    /\ Intact(last.before)
    /\ Len(txs) = 3
    /\ ChronoPlace(txs, last.index) = 2
    /\ Audit(txs).status = "KO"

\* The fingerprint of the chronological predecessor of stored position i
\* ("0" for the chronologically first).
PredecessorHash(stored, i) ==
    LET k == ChronoPlace(stored, i)
    IN  IF k = 1 THEN "0" ELSE sorted(stored)[k - 1].h

(* C3, as stated: after such a mutation the audit reports hash-invalid     *)
(* the mutated transaction and every chronologically later one.            *)
C3_MutationPropagates ==
    (last.op = "tamper_field" /\ Intact(last.before)) =>
        LET r == Audit(txs)
        IN  \A j \in 1..Len(txs) :
                ChronoPlace(txs, j) >= ChronoPlace(txs, last.index)
                    => ReportedHashInvalid(r, txs[j])

(* C3, amended: the audit reports the mutated transaction hash-invalid;    *)
(* any other transaction is reported hash-invalid exactly when the         *)
(* mutation changed the fingerprint stored in its chronological            *)
(* predecessor's place (which takes a changed timestamp), and is reported  *)
(* valid otherwise: the audit goes on from the stored fingerprint.         *)
C3_MutationStaysLocal ==
    (last.op = "tamper_field" /\ Intact(last.before)) =>
        LET r == Audit(txs)
        IN  /\ ReportedHashInvalid(r, txs[last.index])
            /\ \A j \in 1..Len(txs) \ {last.index} :
                  /\ ReportedHashInvalid(r, txs[j])
                        <=> PredecessorHash(txs, j) # PredecessorHash(last.before, j)
                  /\ ~ReportedHashInvalid(r, txs[j]) => ReportedValid(r, txs[j])
                  /\ last.field # "t" => ReportedValid(r, txs[j])

C3_Witness ==
    /\ last.op = "tamper_field"
    /\ Intact(last.before)
    /\ last.field = "a"
    /\ Len(txs) = 3
    /\ ChronoPlace(txs, last.index) = 1
    /\ Audit(txs).invalid_count = 1
    /\ Audit(txs).valid_count = 2

(* C4: after a transaction that is neither the chronologically first nor   *)
(* the chronologically last is deleted from an intact ledger of at least   *)
(* three, the audit finds the next chronological transaction's recomputed  *)
(* fingerprint different from its stored one and reports it invalid.       *)
C4_MiddleDeletionBreaksNext ==
    (/\ last.op = "tamper_delete"
     /\ Intact(last.before)
     /\ Len(last.before) >= 3
     /\ ChronoPlace(last.before, last.index) \in 2..(Len(last.before) - 1)) =>
        LET k == ChronoPlace(last.before, last.index)
            next_tx == sorted(last.before)[k + 1]
        IN  ReportedHashInvalid(Audit(txs), next_tx)

C4_Witness ==
    /\ last.op = "tamper_delete"
    /\ Intact(last.before)
    /\ Len(last.before) >= 3
    /\ ChronoPlace(last.before, last.index) = 2
    /\ Audit(txs).status = "KO"

(* C5: deleting any single transaction from an intact ledger of at least   *)
(* two makes the audit report status KO with invalid_count > 0.            *)
C5_AnyDeletionDetected ==
    (/\ last.op = "tamper_delete"
     /\ Intact(last.before)
     /\ Len(last.before) >= 2) =>
        /\ Audit(txs).status = "KO"
        /\ Audit(txs).invalid_count > 0

(* C6, as stated: after the stored list of an intact ledger is reordered,  *)
(* no field changed, the audit no longer reports the ledger intact.        *)
C6_ReorderDetected ==
    (last.op = "tamper_reorder" /\ Intact(last.before)) => ~Audit(txs).valid

\* The reordering leaves transactions of equal timestamp in their order.
KeepsTieOrder(before, perm) ==
    \A k1, k2 \in 1..Len(perm) :
        (k1 < k2 /\ before[perm[k1]].t = before[perm[k2]].t) => perm[k1] < perm[k2]

(* C6, amended: a reordering of the stored list of an intact ledger is     *)
(* detected exactly when it changes the order of two transactions that     *)
(* carry the same timestamp; otherwise (always, when the timestamps are    *)
(* pairwise distinct) the audit sorts it away and returns the report it    *)
(* returned before.                                                        *)
C6_ReorderSortedAway ==
    (last.op = "tamper_reorder" /\ Intact(last.before)) =>
        /\ Audit(txs).valid <=> KeepsTieOrder(last.before, last.perm)
        /\ KeepsTieOrder(last.before, last.perm) => Audit(txs) = Audit(last.before)

C6_Witness ==
    /\ last.op = "tamper_reorder"
    /\ Intact(last.before)
    /\ Len(txs) = 3
    /\ txs[1].t = "t3"
    /\ txs[3].t = "t1"
    /\ Audit(txs).status = "OK"

(* C7: a forged unsigned transaction inserted into an intact ledger of at  *)
(* least two, chronologically between the first and the second and         *)
(* fingerprinted on the first one's fingerprint, makes the audit report    *)
(* KO with invalid_count > 0: the transaction that follows it no longer    *)
(* matches its expected predecessor.                                       *)
C7_InsertionDetected ==
    (/\ last.op = "tamper_insert"
     /\ Intact(last.before)
     /\ Len(last.before) >= 2
     /\ ChronoPlace(txs, last.index) = 2
     /\ sorted(txs)[1] = sorted(last.before)[1]) =>
        LET r == Audit(txs)
        IN  /\ r.status = "KO"
            /\ r.invalid_count > 0
            /\ ReportedHashInvalid(r, sorted(txs)[3])
            /\ sorted(txs)[3] = sorted(last.before)[2]

C7_Witness ==
    /\ last.op = "tamper_insert"
    /\ Intact(last.before)
    /\ Len(last.before) >= 2
    /\ ChronoPlace(txs, last.index) = 2
    /\ sorted(txs)[1] = sorted(last.before)[1]
    /\ ReportedValid(Audit(txs), last.fake_tx)
    /\ Audit(txs).invalid_count = 1

-----------------------------------------------------------------------------
\* The expected predecessor the audit holds when it reaches the k-th
\* transaction in chronological order, and after it has processed it.
PrevHashBefore(stored, k) == VerifyLoop(sorted(stored), keys, k - 1).prev_hash
PrevHashAfter(stored, k) == VerifyLoop(sorted(stored), keys, k).prev_hash

\* The signature of tx verifies against its sender's registered key.
VerifiesUnderRegisteredKey(tx) ==
    /\ tx.p1 \in DOMAIN keys
    /\ verify_signature(keys[tx.p1],
                        tx.p1 \o "|" \o tx.p2 \o "|" \o tx.t \o "|" \o ToString(tx.a),
                        tx.signature)

(* C8: a ledger built from the empty one only by successful appends whose  *)
(* timestamps never decrease, unsigned or signed under keys that are not   *)
(* replaced, and never edited out of band, is audited OK: valid is true,   *)
(* invalid_count is 0 and every transaction id is in valid_transactions.   *)
C8_HonestLedgerIntact ==
    (hist.pristine /\ hist.monotone /\ ~hist.rekeyed) =>
        LET r == Audit(txs)
        IN  /\ r.status = "OK"
            /\ r.valid
            /\ r.invalid_count = 0
            /\ r.valid_count = Len(txs)
            /\ \A i \in 1..Len(txs) :
                  \E k \in 1..Len(r.valid_transactions) :
                      r.valid_transactions[k] = txs[i].id

C8_Witness ==
    /\ hist.pristine /\ hist.monotone /\ ~hist.rekeyed
    /\ Len(txs) = 3
    /\ "signature" \in DOMAIN txs[2]
    /\ "signature" \notin DOMAIN txs[3]
    /\ txs[2].t = txs[3].t
    /\ txs[1].t # txs[2].t
    /\ Audit(txs).valid_transactions = <<1, 2, 3>>

(* C9: the audit classifies a transaction that carries a fingerprint and   *)
(* the four required fields as valid if and only if its recomputed         *)
(* fingerprint equals the stored one and it carries no signature or its    *)
(* signature verifies against the sender's registered key; otherwise it    *)
(* lists it as invalid.                                                    *)
C9_ValidIffHashAndSignature ==
    LET r == Audit(txs)
        st == sorted(txs)
    IN  \A k \in 1..Len(st) :
            ("h" \in DOMAIN st[k] /\ HasRequiredFields(st[k])) =>
                LET tx == st[k]
                    recomputed == compute_hash(tx.p1, tx.p2, tx.t, tx.a,
                                               PrevHashBefore(txs, k))
                    ok == /\ recomputed = tx.h
                          /\ ("signature" \notin DOMAIN tx
                                 \/ VerifiesUnderRegisteredKey(tx))
                IN  /\ ReportedValid(r, tx) <=> ok
                    /\ (EntriesFor(r, tx) # {}) <=> ~ok

C9_Witness ==
    /\ Len(txs) = 3
    /\ \E i, j \in 1..Len(txs) :
          /\ "signature" \in DOMAIN txs[i]
          /\ ~VerifiesUnderRegisteredKey(txs[i])
          /\ ~ReportedHashInvalid(Audit(txs), txs[i])
          /\ EntriesFor(Audit(txs), txs[i]) # {}
          /\ "signature" \notin DOMAIN txs[j]
          /\ ReportedHashInvalid(Audit(txs), txs[j])
    /\ Audit(txs).invalid_count = 3

(* C10, as stated: after the audit has processed any transaction that      *)
(* carries a fingerprint, whatever its classification (valid, hash-        *)
(* invalid, signature-invalid or incomplete), the expected predecessor     *)
(* for the next one is that transaction's stored fingerprint.              *)
C10_PrevHashAlwaysStored ==
    LET st == sorted(txs)
    IN  \A k \in 1..Len(st) :
            "h" \in DOMAIN st[k] => PrevHashAfter(txs, k) = st[k].h

(* C10, amended: after a transaction that carries a fingerprint and the    *)
(* four required fields, whether valid, hash-invalid or signature-invalid, *)
(* the expected predecessor is its stored fingerprint; after a             *)
(* structurally invalid one (no fingerprint, or a required field missing)  *)
(* it is left as it was, an older value.                                   *)
C10_PrevHashStoredUnlessStructural ==
    LET st == sorted(txs)
    IN  \A k \in 1..Len(st) :
            IF "h" \in DOMAIN st[k] /\ HasRequiredFields(st[k])
            THEN PrevHashAfter(txs, k) = st[k].h
            ELSE PrevHashAfter(txs, k) = PrevHashBefore(txs, k)

C10_Witness ==
    /\ Len(txs) = 2
    /\ "h" \in DOMAIN sorted(txs)[1]
    /\ ~HasRequiredFields(sorted(txs)[1])
    /\ PrevHashBefore(txs, 2) = "0"
    /\ "signature" \in DOMAIN sorted(txs)[2]
    /\ ~VerifiesUnderRegisteredKey(sorted(txs)[2])
    /\ PrevHashAfter(txs, 2) = sorted(txs)[2].h

-----------------------------------------------------------------------------
\* How many entries of the sequence seq of ids equal v.
Occurrences(seq, v) == Cardinality({i \in 1..Len(seq) : seq[i] = v})

\* The ids of the invalid entries of report r, in order.
InvalidIds(r) ==
    [i \in 1..Len(r.invalid_transactions) |-> r.invalid_transactions[i].id]

(* C11: the audit does not stop at the first invalid transaction: every    *)
(* stored transaction is classified exactly once, in valid_transactions or *)
(* in invalid_transactions, and valid_count + invalid_count =              *)
(* total_transactions.                                                     *)
C11_EveryTransactionClassified ==
    LET r == Audit(txs)
        stored_ids == [i \in 1..Len(txs) |-> TxId(txs[i])]
    IN  /\ r.total_transactions = Len(txs)
        /\ r.valid_count = Len(r.valid_transactions)
        /\ r.invalid_count = Len(r.invalid_transactions)
        /\ r.valid_count + r.invalid_count = r.total_transactions
        /\ \A i \in 1..Len(txs) :
              Occurrences(r.valid_transactions, stored_ids[i])
                + Occurrences(InvalidIds(r), stored_ids[i])
                    = Occurrences(stored_ids, stored_ids[i])
        /\ \A k \in 1..Len(r.invalid_transactions) :
              \E i \in 1..Len(txs) : r.invalid_transactions[k].transaction = txs[i]

C11_Witness ==
    /\ Len(txs) = 2
    /\ Audit(txs).invalid_count = 1
    /\ Audit(txs).invalid_transactions[1].transaction = sorted(txs)[1]
    /\ Audit(txs).valid_transactions = <<sorted(txs)[2].id>>

(* C12: the ledger-wide verdict is intact (valid true, status "OK") if and *)
(* only if no transaction was classified invalid; the empty ledger is      *)
(* reported intact with total 0.                                           *)
C12_IntactIffNoInvalid ==
    LET r == Audit(txs)
    IN  /\ r.valid <=> r.invalid_transactions = <<>>
        /\ r.status = "OK" <=> r.valid
        /\ r.status = "KO" <=> ~r.valid
        /\ txs = <<>> => (r.valid /\ r.status = "OK" /\ r.total_transactions = 0)
        /\ last.op = "verify_integrity" => last.report = r

C12_Witness ==
    /\ last.op = "verify_integrity"
    /\ last.report.status = "KO"
    /\ ~last.report.valid
    /\ last.report.valid_count > 0
    /\ last.report.invalid_count > 0

-----------------------------------------------------------------------------
\* The stored position of the transaction of a non-empty list that has the
\* greatest timestamp, the one stored last among several of them.
GreatestTimestampIndex(stored) ==
    CHOOSE i \in 1..Len(stored) :
        \A j \in 1..Len(stored) :
            \/ TimeRank(stored[j].t) < TimeRank(stored[i].t)
            \/ TimeRank(stored[j].t) = TimeRank(stored[i].t) /\ j <= i

(* C13: the transaction add_transaction stores carries the fingerprint     *)
(* compute_hash(p1, p2, t, a, prev), where prev is "0" when the ledger was *)
(* empty and otherwise the stored fingerprint of the transaction with the  *)
(* greatest timestamp in the ledger, not of the most recently appended.    *)
C13_ChainedOnGreatestTimestamp ==
    (last.op = "add_transaction" /\ last.code = 201) =>
        LET tx == last.tx
            loaded == SubSeq(txs, 1, Len(txs) - 1)
            prev == IF loaded = <<>> THEN "0"
                    ELSE loaded[GreatestTimestampIndex(loaded)].h
        IN  /\ txs[Len(txs)] = tx
            /\ tx.h = compute_hash(tx.p1, tx.p2, tx.t, tx.a, prev)

C13_Witness ==
    /\ last.op = "add_transaction"
    /\ last.code = 201
    /\ hist.pristine
    /\ Len(txs) = 3
    /\ TimeRank(txs[2].t) < TimeRank(txs[1].t)
    /\ txs[3] = last.tx
    /\ last.tx.h = compute_hash(last.tx.p1, last.tx.p2, last.tx.t, last.tx.a,
                                txs[1].h)

-----------------------------------------------------------------------------
\* The text a request's signature has to cover.
RequestMessage(payload, now) ==
    payload.p1 \o "|" \o payload.p2 \o "|"
        \o (IF "t" \in DOMAIN payload THEN payload.t ELSE now)
        \o "|" \o ToString(payload.a)

\* The request carries a signature, and its sender has no registered key
\* or the signature was not made over the request's fields with the key
\* pair whose public half is registered for the sender.
CarriesBadSignature(payload, now, ks) ==
    /\ {"p1", "p2", "a", "signature"} \subseteq DOMAIN payload
    /\ payload.signature # ""
    /\ \/ payload.p1 \notin DOMAIN ks
       \/ ~\E k \in KeyPairs, salt \in Salts :
              /\ ks[payload.p1] = PublicPem(k)
              /\ payload.signature
                    = sign_transaction(k, RequestMessage(payload, now), salt)

(* C14: an add_transaction request that carries a signature which does not *)
(* verify for (p1, p2, t, a), or whose sender has no registered key, is    *)
(* answered with an error in the step that checks it, before the ledger is *)
(* loaded or a fingerprint computed, and leaves the ledger and the key     *)
(* registry as they were.                                                  *)
C14_BadSignatureRejected ==
    [][\A c \in Clients :
          (/\ calls[c].pc = "idle"
           /\ calls'[c].pc # "idle"
           /\ CarriesBadSignature(calls'[c].payload, calls'[c].now, keys)) =>
              /\ calls'[c].pc = "done"
              /\ calls'[c].code = 400
              /\ calls'[c].error \in {"Cle publique non trouvee",
                                      "Signature invalide"}
              /\ "loaded" \notin DOMAIN calls'[c]
              /\ "tx" \notin DOMAIN calls'[c]
              /\ txs' = txs
              /\ keys' = keys]_vars

C14_Witness ==
    \E c \in Clients :
        /\ calls[c].pc = "done"
        /\ calls[c].code = 400
        /\ calls[c].error = "Signature invalide"
        /\ CarriesBadSignature(calls[c].payload, calls[c].now, keys)
        /\ Len(txs) = 2
        /\ "signature" \in DOMAIN txs[1]

(* C15: when two add_transaction requests both load the ledger before      *)
(* either saves, both report success, both transactions get the same id    *)
(* and the same predecessor fingerprint, and the stored ledger holds only  *)
(* one of the two; nothing in the append notices.                          *)
C15_LostUpdate ==
    \A c, d \in Clients :
        (/\ c # d
         /\ calls[c].pc = "done" /\ calls[c].code = 201
         /\ calls[d].pc = "done" /\ calls[d].code = 201
         /\ calls[c].loaded = calls[d].loaded) =>
            LET loaded == calls[c].loaded
                prev == IF loaded = <<>> THEN "0"
                        ELSE loaded[GreatestTimestampIndex(loaded)].h
                tc == calls[c].tx
                td == calls[d].tx
            IN  /\ tc.id = Len(loaded) + 1
                /\ td.id = tc.id
                /\ tc.h = compute_hash(tc.p1, tc.p2, tc.t, tc.a, prev)
                /\ td.h = compute_hash(td.p1, td.p2, td.t, td.a, prev)
                /\ txs \in {Append(loaded, tc), Append(loaded, td)}
                /\ Len(hist.added) > Len(txs)

C15_Witness ==
    /\ calls["c1"].pc = "done" /\ calls["c1"].code = 201
    /\ calls["c2"].pc = "done" /\ calls["c2"].code = 201
    /\ calls["c1"].loaded = calls["c2"].loaded
    /\ Len(calls["c1"].loaded) = 1
    /\ calls["c1"].tx # calls["c2"].tx
    /\ txs = Append(calls["c1"].loaded, calls["c2"].tx)
    /\ \A i \in 1..Len(txs) : txs[i] # calls["c1"].tx
    /\ Len(hist.added) = 3

-----------------------------------------------------------------------------
\* The fingerprints, among "0" and the stored ones, on which the stored
\* fingerprint of position i is chained.
PredecessorsOf(stored, i) ==
    {prev \in {"0"} \cup {stored[k].h : k \in 1..Len(stored)} :
        stored[i].h = compute_hash(stored[i].p1, stored[i].p2, stored[i].t,
                                   stored[i].a, prev)}

\* Every transaction was appended with a later timestamp than the one
\* before it.
StrictlyIncreasing(stored) ==
    \A i \in 1..(Len(stored) - 1) : TimeRank(stored[i].t) < TimeRank(stored[i + 1].t)

(* C16: when appends run one at a time, every append that reported success *)
(* is in the ledger afterwards, the ledger is as long as the number of     *)
(* successful appends, and, when the timestamps are strictly increasing,   *)
(* no two transactions share a predecessor fingerprint.                    *)
C16_SerialAppendsKept ==
    hist.pristine =>
        /\ Len(txs) = Len(hist.added)
        /\ \A k \in 1..Len(hist.added) :
              \E i \in 1..Len(txs) : txs[i] = hist.added[k]
        /\ (last.op = "add_transaction" /\ last.code = 201) =>
              \E i \in 1..Len(txs) : txs[i] = last.tx
        /\ StrictlyIncreasing(txs) =>
              \A i, j \in 1..Len(txs) :
                  /\ PredecessorsOf(txs, i) # {}
                  /\ i # j => PredecessorsOf(txs, i) \cap PredecessorsOf(txs, j) = {}

C16_Witness ==
    /\ hist.pristine
    /\ last.op = "add_transaction"
    /\ last.code = 201
    /\ Len(hist.added) = 3
    /\ StrictlyIncreasing(txs)
    /\ PredecessorsOf(txs, 3) = {txs[2].h}
    /\ PredecessorsOf(txs, 2) = {txs[1].h}
    /\ PredecessorsOf(txs, 1) = {"0"}

-----------------------------------------------------------------------------
(* C17: a successful add_transaction leaves every stored transaction as it *)
(* was, in its place, and adds exactly one transaction at the end of the   *)
(* stored list; a failed add_transaction changes nothing.                  *)
C17_AppendOnly ==
    [][last'.op = "add_transaction" =>
          /\ keys' = keys
          /\ last'.code \in {201, 400}
          /\ last'.code = 201 =>
                /\ Len(txs') = Len(txs) + 1
                /\ \A i \in 1..Len(txs) : txs'[i] = txs[i]
                /\ txs'[Len(txs')] = last'.tx
          /\ last'.code = 400 => txs' = txs]_vars

C17_Witness ==
    /\ last.op = "add_transaction"
    /\ last.code = 400
    /\ Len(txs) = 2
    /\ hist.added = txs
    /\ "signature" \in DOMAIN txs[1]
    /\ "signature" \notin DOMAIN txs[2]
    /\ txs[2].p1 = "a"

-----------------------------------------------------------------------------
\* The audit has an answer for each stored transaction.
AuditComplete(r) ==
    /\ r.total_transactions = Len(txs)
    /\ Len(r.valid_transactions) + Len(r.invalid_transactions) = Len(txs)

(* C18: a transaction that carries a signature and whose sender has no key *)
(* in the registry gets signature_valid = false and is listed as invalid   *)
(* with the signature reason, and the audit goes on with the remaining     *)
(* transactions.                                                           *)
C18_MissingKeyIsSignatureInvalid ==
    LET r == Audit(txs)
        st == sorted(txs)
    IN  \A k \in 1..Len(st) :
            (/\ "h" \in DOMAIN st[k]
             /\ HasRequiredFields(st[k])
             /\ "signature" \in DOMAIN st[k]
             /\ st[k].p1 \notin DOMAIN keys) =>
                /\ EntriesFor(r, st[k]) # {}
                /\ \A e \in EntriesFor(r, st[k]) :
                      /\ e.signature_valid = FALSE
                      /\ e.reason \in
                            {"Signature invalide ou cle publique manquante",
                             "Hash invalide ou chaine cassee; Signature invalide ou cle publique manquante"}
                /\ \A i \in 1..Len(r.valid_transactions) :
                      r.valid_transactions[i] # st[k].id
                /\ AuditComplete(r)
                /\ ~r.valid

C18_Witness ==
    /\ Len(txs) = 2
    /\ "signature" \in DOMAIN sorted(txs)[1]
    /\ "h" \in DOMAIN sorted(txs)[1]
    /\ HasRequiredFields(sorted(txs)[1])
    /\ sorted(txs)[1].p1 \notin DOMAIN keys
    /\ DOMAIN keys # {}
    /\ Audit(txs).invalid_count = 1
    /\ \E e \in EntriesFor(Audit(txs), sorted(txs)[1]) : e.signature_valid = FALSE
    /\ ReportedValid(Audit(txs), sorted(txs)[2])

(* C19: a transaction without a fingerprint is listed as invalid with the  *)
(* no-fingerprint reason, whatever else it lacks; one that has a           *)
(* fingerprint but lacks the sender, the recipient, the timestamp or the   *)
(* amount is listed as invalid with the incomplete reason; neither case    *)
(* stops the audit.                                                        *)
C19_StructuralReasons ==
    LET r == Audit(txs)
    IN  \A i \in 1..Len(txs) :
            LET expected ==
                    IF "h" \notin DOMAIN txs[i] THEN "Transaction v1 sans hash"
                    ELSE "Champs manquants pour le calcul du hash"
            IN  ("h" \notin DOMAIN txs[i] \/ ~HasRequiredFields(txs[i])) =>
                    /\ EntriesFor(r, txs[i])
                          = {[id |-> txs[i].id, reason |-> expected,
                              transaction |-> txs[i]]}
                    /\ \A k \in 1..Len(r.valid_transactions) :
                          r.valid_transactions[k] # txs[i].id
                    /\ AuditComplete(r)
                    /\ ~r.valid

C19_Witness ==
    /\ Len(txs) = 2
    /\ "h" \notin DOMAIN sorted(txs)[1]
    /\ ~HasRequiredFields(sorted(txs)[1])
    /\ Audit(txs).invalid_count = 2
    /\ Audit(txs).invalid_transactions[1].reason = "Transaction v1 sans hash"
    /\ ReportedHashInvalid(Audit(txs), sorted(txs)[2])

-----------------------------------------------------------------------------
\* signature_valid as the audit of the list stored reports it for its
\* record tx: true for a transaction listed as valid, the entry's
\* signature_valid for one listed as invalid.
SignatureOutcome(stored, tx) ==
    LET r == verify_integrity(stored, keys)
    IN  IF EntriesFor(r, tx) = {} THEN TRUE
        ELSE \A e \in EntriesFor(r, tx) : e.signature_valid

\* The fingerprints tried in place of a stored one.
OtherFingerprints(stored, i) ==
    ({"0", compute_hash(stored[i].p1, stored[i].p2, stored[i].t, stored[i].a, "0")}
        \cup {stored[k].h : k \in 1..Len(stored)}) \ {stored[i].h}

\* The lists in which the record of position i is preceded by other
\* transactions: it alone, and the list without one of the others.
OtherPredecessors(stored, i) ==
    {<<stored[i]>>} \cup {RemoveAt(stored, j) : j \in 1..Len(stored) \ {i}}

(* C20: the signature outcome of a signed transaction depends on its       *)
(* sender, recipient, timestamp, amount, signature and the sender's        *)
(* registered key only: the audit that has just run computes the same      *)
(* signature_valid for it as the audit of a ledger that differs in its     *)
(* stored fingerprint or in the transactions that precede it.              *)
C20_SignatureIgnoresChain ==
    \A i \in 1..Len(txs) :
        (last.op = "verify_integrity" /\ "signature" \in DOMAIN txs[i]) =>
            /\ SignatureOutcome(txs, txs[i]) = VerifiesUnderRegisteredKey(txs[i])
            /\ \A h \in OtherFingerprints(txs, i) :
                  LET other == [txs EXCEPT ![i].h = h]
                  IN  SignatureOutcome(other, other[i])
                          = SignatureOutcome(txs, txs[i])
            /\ \A other \in OtherPredecessors(txs, i) :
                  SignatureOutcome(other, txs[i]) = SignatureOutcome(txs, txs[i])

C20_Witness ==
    /\ last.op = "verify_integrity"
    /\ Len(txs) = 3
    /\ \E i \in 1..Len(txs) :
          /\ "signature" \in DOMAIN txs[i]
          /\ ChronoPlace(txs, i) = 2
          /\ ~VerifiesUnderRegisteredKey(txs[i])
          /\ ~ReportedHashInvalid(Audit(txs), txs[i])
          /\ LET other == [txs EXCEPT ![i].h = "0"]
             IN  /\ ReportedHashInvalid(Audit(other), other[i])
                 /\ ~SignatureOutcome(other, other[i])
          /\ ~SignatureOutcome(<<txs[i]>>, txs[i])

-----------------------------------------------------------------------------
(* Calls of the pure functions, on arguments as any caller can pass them.  *)

\* Party names and timestamps as a request can carry them: add_transaction
\* stores the texts it is given, the delimiter included.
PureSenders == {"a", "a|b"}
PureRecipients == {"b", "c", "b|c"}
PureTimes == {"t1", "t2", "c|t1"}
PurePrevHashes == {"0", sha256_hexdigest("x")}

\* Canonical messages: one transfer, the same with another amount, another.
PureMessages ==
    {get_transaction_data_for_signing("a", "b", "t1", a) : a \in Amounts}
        \cup {get_transaction_data_for_signing("b", "a", "t1", 1)}

\* A signature with some of its bytes changed.
AlterSignature(signature) == "~" \o signature

\* base64 of three bytes: decodes, but to no RSA signature.
ShortSignature == "AAAA"

GenuineSignatures ==
    {sign_transaction(k, m, salt) :
        k \in KeyPairs, m \in PureMessages, salt \in Salts}

PureSignatures ==
    GenuineSignatures \cup {AlterSignature(s) : s \in GenuineSignatures}
        \cup {ShortSignature, NotBase64, ""}

VerifySignature(public_key_pem, message, signature_b64) ==
    /\ last' = [op |-> "verify_signature",
                public_key_pem |-> public_key_pem, message |-> message,
                signature_b64 |-> signature_b64,
                call |-> VerifySignatureCall(public_key_pem, message,
                                             signature_b64)]
    /\ UNCHANGED <<txs, keys, hist, calls>>

GetTransactionDataForSigning(p1, p2, t, a) ==
    /\ last' = [op |-> "get_transaction_data_for_signing",
                p1 |-> p1, p2 |-> p2, t |-> t, a |-> a,
                message |-> get_transaction_data_for_signing(p1, p2, t, a)]
    /\ UNCHANGED <<txs, keys, hist, calls>>

ComputeHash(p1, p2, t, a, prev_hash) ==
    /\ last' = [op |-> "compute_hash",
                p1 |-> p1, p2 |-> p2, t |-> t, a |-> a,
                prev_hash |-> prev_hash,
                h |-> compute_hash(p1, p2, t, a, prev_hash)]
    /\ UNCHANGED <<txs, keys, hist, calls>>

NextPure ==
    \/ \E pem \in ValidPems \cup {NotPem}, m \in PureMessages,
          s \in PureSignatures : VerifySignature(pem, m, s)
    \/ \E p1 \in PureSenders, p2 \in PureRecipients, t \in PureTimes,
          a \in Amounts : GetTransactionDataForSigning(p1, p2, t, a)
    \/ \E p1 \in PureSenders, p2 \in PureRecipients, t \in PureTimes,
          a \in Amounts, prev_hash \in PurePrevHashes :
          ComputeHash(p1, p2, t, a, prev_hash)

SpecPure == Init /\ [][NextPure]_vars

\* The signature was made over the message with the private half of the key
\* the PEM text holds.
Genuine(public_key_pem, message, signature_b64) ==
    \E k \in KeyPairs, salt \in Salts :
        /\ public_key_pem = PublicPem(k)
        /\ signature_b64 = sign_transaction(k, message, salt)

\* C21: a call of verify_signature ends in a returned boolean, never in an
\* exception; with a key that is no PEM, a signature that does not decode
\* or has the wrong length, or a signature that does not match the message
\* under the key, the value returned is False.
C21_VerifySignatureNeverRaises ==
    last.op = "verify_signature" =>
        /\ ~last.call.raised
        /\ last.call.value \in BOOLEAN
        /\ ~Genuine(last.public_key_pem, last.message, last.signature_b64)
              => last.call.value = FALSE

\* A call with a key that is no PEM and a signature that is not base64 has
\* returned False.
C21_Witness ==
    /\ last.op = "verify_signature"
    /\ last.public_key_pem = NotPem
    /\ last.signature_b64 = NotBase64
    /\ last.call = Returned(FALSE)

\* C22: verify_signature returns True for a signature made over the message
\* with the private key matching the public key supplied, and False when
\* the message differs in its amount, when another key is supplied, when
\* the bytes of the signature are altered, and when the key is no PEM.
C22_VerifySignatureSound ==
    last.op = "verify_signature" =>
        \A k \in KeyPairs, salt \in Salts, a \in Amounts :
            LET m == get_transaction_data_for_signing("a", "b", "t1", a)
                s == sign_transaction(k, m, salt)
                v == last.call
            IN  /\ ( /\ last.signature_b64 = s
                     /\ last.message = m
                     /\ last.public_key_pem = PublicPem(k) ) => v = Returned(TRUE)
                /\ ( /\ last.signature_b64 = s
                     /\ \E b \in Amounts \ {a} :
                           last.message =
                             get_transaction_data_for_signing("a", "b", "t1", b) )
                      => v = Returned(FALSE)
                /\ ( /\ last.signature_b64 = s
                     /\ last.message = m
                     /\ last.public_key_pem # PublicPem(k) ) => v = Returned(FALSE)
                /\ ( /\ last.signature_b64 = AlterSignature(s)
                     /\ last.message = m
                     /\ last.public_key_pem = PublicPem(k) ) => v = Returned(FALSE)
                /\ last.public_key_pem = NotPem => v = Returned(FALSE)

\* A genuine signature has verified under its key, and the same signature
\* has been refused under the other key.
C22_Witness ==
    /\ last.op = "verify_signature"
    /\ last.message = get_transaction_data_for_signing("a", "b", "t1", 1)
    /\ last.signature_b64 = sign_transaction("K1", last.message, "s1")
    /\ last.public_key_pem = PublicPem("K1")
    /\ last.call = Returned(TRUE)

\* C28: the text compute_hash hashes is the canonical message of
\* get_transaction_data_for_signing for the same four fields, followed by
\* "|" and the predecessor fingerprint; the fingerprint returned is that
\* function of the five arguments and of nothing else.
C28_HashOfCanonicalMessage ==
    last.op = "compute_hash" =>
        last.h = sha256_hexdigest(
                    get_transaction_data_for_signing(last.p1, last.p2,
                                                     last.t, last.a)
                        \o "|" \o last.prev_hash)

\* compute_hash has been called with a predecessor other than "0" and an
\* amount other than 1.
C28_Witness ==
    /\ last.op = "compute_hash"
    /\ last.prev_hash # "0"
    /\ last.a = 2
    /\ last.h = sha256_hexdigest("a|b|t1|2|" \o last.prev_hash)

\* The field tuples the calls are made on.
PureTuples ==
    {<<p1, p2, t, a>> : p1 \in PureSenders, p2 \in PureRecipients,
                        t \in PureTimes, a \in Amounts}

\* C29: two tuples (sender, recipient, timestamp, amount) that differ in at
\* least one field have different canonical messages, and different
\* fingerprints under the same predecessor.
C29_DelimiterUnambiguous ==
    last.op = "get_transaction_data_for_signing" =>
        \A other \in PureTuples :
            other # <<last.p1, last.p2, last.t, last.a>> =>
                /\ get_transaction_data_for_signing(other[1], other[2],
                                                    other[3], other[4])
                      # last.message
                /\ \A prev_hash \in PurePrevHashes :
                      compute_hash(other[1], other[2], other[3], other[4],
                                   prev_hash)
                        # compute_hash(last.p1, last.p2, last.t, last.a,
                                       prev_hash)

-----------------------------------------------------------------------------

C24_GenesisOnZero ==
    /\ ( /\ last.op = "add_transaction"
         /\ last.code = 201
         /\ Len(hist.added) = 1 )
          => /\ last.prev_hash = "0"
             /\ last.tx.h = sha256_hexdigest(
                    get_transaction_data_for_signing(last.tx.p1, last.tx.p2,
                                                     last.tx.t, last.tx.a)
                        \o "|" \o "0")
             /\ txs = <<last.tx>>
    /\ ( /\ Len(txs) = 1
         /\ {"p1", "p2", "t", "a", "h"} \subseteq DOMAIN txs[1]
         /\ "signature" \notin DOMAIN txs[1]
         /\ txs[1].h = compute_hash(txs[1].p1, txs[1].p2, txs[1].t, txs[1].a, "0") )
          => /\ Audit(txs).valid = TRUE
             /\ Audit(txs).status = "OK"
             /\ Audit(txs).valid_transactions = <<TxId(txs[1])>>

\* The audit has reported a ledger of one transaction, appended to the
\* empty ledger, as intact.
C24_Witness ==
    /\ last.op = "verify_integrity"
    /\ hist.pristine
    /\ Len(hist.added) = 1
    /\ Len(txs) = 1
    /\ txs[1].h = compute_hash(txs[1].p1, txs[1].p2, txs[1].t, txs[1].a, "0")
    /\ last.report.valid = TRUE

-----------------------------------------------------------------------------

HashReason == "Hash invalide ou chaine cassee"
SignatureReason == "Signature invalide ou cle publique manquante"

NamesHashFailure(reason) ==
    reason \in {HashReason, HashReason \o "; " \o SignatureReason}

NamesSignatureFailure(reason) ==
    reason \in {SignatureReason, HashReason \o "; " \o SignatureReason}

\* The predecessor fingerprint the audit holds when it reaches the k-th
\* transaction in chronological order: the stored fingerprint of the nearest
\* earlier transaction that has a fingerprint and the four fields, "0" when
\* there is none.
PredecessorUsed(st, k) ==
    LET audited == {j \in 1..(k - 1) :
                       {"p1", "p2", "t", "a", "h"} \subseteq DOMAIN st[j]}
    IN  IF audited = {} THEN "0"
        ELSE st[CHOOSE j \in audited : \A i \in audited : i <= j].h

\* C27: in every invalid entry made after the structural checks, the reason
\* names the fingerprint exactly when the recomputed fingerprint differs
\* from the stored one and names the signature exactly when
\* signature_valid is false; when the fingerprint failed the entry carries
\* the predecessor the audit used, the stored and the recomputed
\* fingerprint, and null for the three otherwise; signature_valid is a
\* boolean, the outcome of the signature check, when the transaction
\* carries a signature, and null when it carries none.
C27_InvalidEntryDetails ==
    last.op = "verify_integrity" =>
        LET r == last.report
            st == sorted(txs)
        IN  \A n \in 1..Len(r.invalid_transactions) :
              LET e == r.invalid_transactions[n] IN
              "computed_hash" \in DOMAIN e =>
                \E k \in 1..Len(st) :
                  /\ st[k] = e.transaction
                  /\ LET tx == st[k]
                         prev == PredecessorUsed(st, k)
                         recomputed ==
                             sha256_hexdigest(tx.p1 \o "|" \o tx.p2 \o "|" \o tx.t
                                 \o "|" \o ToString(tx.a) \o "|" \o prev)
                     IN  /\ NamesHashFailure(e.reason) <=> recomputed # tx.h
                         /\ IF recomputed # tx.h
                            THEN /\ e.expected_prev_hash = prev
                                 /\ e.stored_hash = tx.h
                                 /\ e.computed_hash = recomputed
                            ELSE /\ e.expected_prev_hash = None
                                 /\ e.stored_hash = None
                                 /\ e.computed_hash = None
                         /\ IF "signature" \in DOMAIN tx
                            THEN /\ e.signature_valid \in BOOLEAN
                                 /\ e.signature_valid = VerifiesUnderRegisteredKey(tx)
                                 /\ NamesSignatureFailure(e.reason)
                                       <=> e.signature_valid = FALSE
                            ELSE /\ e.signature_valid = None
                                 /\ ~NamesSignatureFailure(e.reason)

\* An audit has listed one transaction for its signature alone and another
\* for its fingerprint.
C27_Witness ==
    /\ last.op = "verify_integrity"
    /\ \E n, m \in 1..Len(last.report.invalid_transactions) :
          /\ last.report.invalid_transactions[n].reason = SignatureReason
          /\ NamesHashFailure(last.report.invalid_transactions[m].reason)

-----------------------------------------------------------------------------

\* C25: the key registry holds for each party the key of that party's
\* latest successful registration and nothing else: a lookup returns that
\* key, a party that never registered has none, and a registration for one
\* party leaves the key of every other party as it was.
C25_LastWriteWins ==
    /\ DOMAIN keys = DOMAIN hist.registered
    /\ \A p \in DOMAIN hist.registered :
          get_public_key(keys, p) = hist.registered[p]
    /\ \A p \in Parties \ DOMAIN hist.registered : get_public_key(keys, p) = None
    /\ last.op = "get_person_public_key" =>
          IF last.person \in DOMAIN hist.registered
          THEN /\ last.code = 200
               /\ last.public_key = hist.registered[last.person]
          ELSE last.code = 404

\* Both parties have a key, one of them after a second registration with
\* another key, and a lookup has returned it.
C25_Witness ==
    /\ last.op = "get_person_public_key"
    /\ last.code = 200
    /\ hist.rekeyed
    /\ DOMAIN keys = Parties
    /\ keys["a"] # keys["b"]
    /\ last.public_key = keys[last.person]

ReadRoutes ==
    {"verify_integrity", "list_transactions", "list_transactions_for_person",
     "balance", "get_person_public_key"}

\* C26: a step of verify_integrity, of the two listings, of balance or of
\* the key lookup leaves the stored ledger and the key registry as they
\* were, whatever the ledger holds.
C26_ReadsChangeNothing ==
    [][last'.op \in ReadRoutes => txs' = txs /\ keys' = keys]_vars

\* A read route has answered on an edited ledger that holds a record
\* without its timestamp, and the audit has listed that record.
C26_Witness ==
    /\ ~hist.pristine
    /\ \E i \in 1..Len(txs) : "t" \notin DOMAIN txs[i]
    /\ \/ last.op = "list_transactions" /\ last.code = 500
       \/ last.op = "verify_integrity" /\ last.report.status = "KO"

\* C30: no two stored transactions have the same id, in a ledger reached by
\* successful appends and out-of-band deletions followed by further appends.
C30_IdsUnique ==
    \A i, j \in 1..Len(txs) : i # j => TxId(txs[i]) # TxId(txs[j])

-----------------------------------------------------------------------------

\* What report r says of the stored record tx: listed valid or not, and the
\* reasons of the invalid entries about it.
Verdict(r, tx) ==
    [valid |-> ReportedValid(r, tx),
     reasons |-> {e.reason : e \in EntriesFor(r, tx)}]

\* The predecessor fingerprint the audit of stored holds when it reaches
\* the stored position i.
PredecessorAt(stored, i) ==
    PredecessorUsed(sorted(stored), ChronoPlace(stored, i))

\* C31: a record stored with the same fields, fingerprint and signature in
\* the ledger before an out-of-band edit and in the ledger after it, under
\* the same key registry, and preceded in both by the same stored
\* fingerprint of the nearest chronologically earlier record that has a
\* fingerprint and the required fields, gets the same verdict from
\* verify_integrity on both ledgers, whatever else the edit changed.
C31_VerdictIsLocal ==
    "before" \in DOMAIN last =>
        LET r_after == Audit(txs)
            r_before == Audit(last.before)
            st_after == sorted(txs)
            st_before == sorted(last.before)
        IN  \A k \in 1..Len(st_after), l \in 1..Len(st_before) :
                ( /\ st_after[k] = st_before[l]
                  /\ PredecessorUsed(st_after, k) = PredecessorUsed(st_before, l) )
                    => Verdict(r_after, st_after[k]) = Verdict(r_before, st_before[l])

\* The amount of the chronologically first of three transactions has been
\* edited; the two later ones are stored as before, on the same
\* predecessors, and are reported valid as before.
C31_Witness ==
    /\ last.op = "tamper_field"
    /\ last.field = "a"
    /\ Len(txs) = 3
    /\ ChronoPlace(txs, last.index) = 1
    /\ Intact(last.before)
    /\ \A i \in 1..3 \ {last.index} :
          /\ txs[i] = last.before[i]
          /\ PredecessorAt(txs, i) = PredecessorAt(last.before, i)
          /\ Verdict(Audit(txs), txs[i]).valid

-----------------------------------------------------------------------------

\* C32: when the signature field alone is removed out of band from a signed
\* transaction of a ledger that verify_integrity reports intact, the audit
\* of the edited ledger still reports it intact, with the stripped record
\* among the valid ones.
C32_StrippedSignatureUndetected ==
    ( /\ last.op = "tamper_remove_fields"
      /\ last.fields = {"signature"}
      /\ Intact(last.before) )
        => /\ Audit(txs).status = "OK"
           /\ Audit(txs).valid = TRUE
           /\ ReportedValid(Audit(txs), txs[last.index])

\* The signature of a transaction accepted under the sender's key has been
\* removed from an intact ledger.
C32_Witness ==
    /\ last.op = "tamper_remove_fields"
    /\ last.fields = {"signature"}
    /\ Intact(last.before)
    /\ "signature" \in DOMAIN last.before[last.index]
    /\ "signature" \notin DOMAIN txs[last.index]
    /\ Intact(txs)

-----------------------------------------------------------------------------

\* No record of stored carries a signature.
Unsigned(stored) ==
    \A i \in 1..Len(stored) : "signature" \notin DOMAIN stored[i]

\* C33: after a rewrite that changes one field of one transaction of a
\* ledger of unsigned transactions and recomputes the fingerprint of that
\* transaction and of every chronologically later one along the chain,
\* verify_integrity reports the ledger intact.
C33_RewriteUndetected ==
    ( /\ last.op = "tamper_rewrite"
      /\ Cardinality(last.fields) = 1
      /\ Unsigned(last.before) )
        => Audit(txs).valid = TRUE

\* C33, amended: the ledger was chained correctly before the rewrite, and
\* the change does not move the transaction to a later chronological place;
\* then the rewritten ledger is reported intact. A change of timestamp that
\* moves the transaction later leaves the transactions it passed chained
\* on a fingerprint that no longer precedes them, and the ledger is
\* reported KO.
C33_RewriteInPlaceUndetected ==
    ( /\ last.op = "tamper_rewrite"
      /\ Cardinality(last.fields) = 1
      /\ Unsigned(last.before)
      /\ ChainedOnPredecessor(last.before) )
        => IF ChronoPlace(txs, last.index) <= ChronoPlace(last.before, last.index)
           THEN /\ Audit(txs).valid = TRUE
                /\ Audit(txs).status = "OK"
                /\ Audit(txs).invalid_count = 0
           ELSE Audit(txs).status = "KO"

\* The amount of the chronologically first of two unsigned transactions has
\* been rewritten with both fingerprints recomputed, and the ledger is
\* reported intact.
C33_Witness ==
    /\ last.op = "tamper_rewrite"
    /\ last.fields = {"a"}
    /\ Unsigned(last.before)
    /\ ChainedOnPredecessor(last.before)
    /\ Len(txs) = 2
    /\ ChronoPlace(txs, last.index) = 1
    /\ txs[1].h # last.before[1].h
    /\ txs[2].h # last.before[2].h
    /\ Audit(txs).valid = TRUE

\* C34: after a rewrite that changes the sender, the recipient, the
\* timestamp or the amount of a signed transaction, keeps its signature
\* and recomputes the fingerprints along the chain, with the sender's
\* registered key as it was when the transaction was accepted,
\* verify_integrity reports that transaction invalid.
C34_SignedRewriteDetected ==
    ( /\ last.op = "tamper_rewrite"
      /\ "signature" \in DOMAIN last.before[last.index]
      /\ ~hist.rekeyed )
        => /\ EntriesFor(Audit(txs), txs[last.index]) # {}
           /\ Audit(txs).status = "KO"

-----------------------------------------------------------------------------

\* Report r finds the signature of the stored record tx good: tx is listed
\* valid, or listed invalid with signature_valid true.
ReportedSignatureValid(r, tx) ==
    \/ ReportedValid(r, tx)
    \/ /\ EntriesFor(r, tx) # {}
       /\ \A e \in EntriesFor(r, tx) :
             /\ "signature_valid" \in DOMAIN e
             /\ e.signature_valid = TRUE
             /\ ~NamesSignatureFailure(e.reason)

\* C35: a signed transaction that add_transaction accepted, stored with its
\* fields and signature as accepted, is found signature-valid by every
\* audit made while the sender's registered key has not been replaced: the
\* message rebuilt from the stored fields is the one the signature was
\* verified over, and it verifies under the registered key.
C35_AcceptedSignatureStaysValid ==
    (last.op = "verify_integrity" /\ ~hist.rekeyed) =>
        \A n \in 1..Len(hist.added) :
            LET tx == hist.added[n] IN
            ( /\ "signature" \in DOMAIN tx
              /\ \E i \in 1..Len(txs) : txs[i] = tx )
                => /\ ReportedSignatureValid(last.report, tx)
                   /\ VerifiesUnderRegisteredKey(tx)

\* An audit has found the signature of an accepted transaction good while
\* its fingerprint, chained before an append with an earlier timestamp, no
\* longer matches.
C35_Witness ==
    /\ last.op = "verify_integrity"
    /\ ~hist.rekeyed
    /\ \E n \in 1..Len(hist.added) :
          /\ "signature" \in DOMAIN hist.added[n]
          /\ \E e \in EntriesFor(last.report, hist.added[n]) :
                /\ e.signature_valid = TRUE
                /\ e.reason = HashReason

\* C36: once the sender's latest registered key is another one than the
\* key a stored signed transaction was accepted under, the audit reports
\* that transaction signature-invalid, and the ledger KO even though no
\* record was edited.
C36_RekeyInvalidatesHistory ==
    last.op = "verify_integrity" =>
        \A i \in 1..Len(txs), k \in KeyPairs, salt \in Salts :
            LET tx == txs[i] IN
            ( /\ "signature" \in DOMAIN tx
              /\ tx.signature = sign_transaction(k,
                     tx.p1 \o "|" \o tx.p2 \o "|" \o tx.t \o "|" \o ToString(tx.a),
                     salt)
              /\ tx.p1 \in DOMAIN hist.registered
              /\ hist.registered[tx.p1] # PublicPem(k) )
                => /\ last.report.status = "KO"
                   /\ last.report.valid = FALSE
                   /\ EntriesFor(last.report, tx) # {}
                   /\ \A e \in EntriesFor(last.report, tx) :
                         /\ e.signature_valid = FALSE
                         /\ NamesSignatureFailure(e.reason)

\* The sender has registered another key after a signed append to an
\* unedited ledger of increasing timestamps, and the audit lists the
\* transaction for its signature alone.
C36_Witness ==
    /\ last.op = "verify_integrity"
    /\ hist.rekeyed
    /\ hist.pristine
    /\ hist.monotone
    /\ last.report.status = "KO"
    /\ \E n \in 1..Len(last.report.invalid_transactions) :
          last.report.invalid_transactions[n].reason = SignatureReason
    /\ \A n \in 1..Len(last.report.invalid_transactions) :
          last.report.invalid_transactions[n].reason = SignatureReason

-----------------------------------------------------------------------------

\* C37: after a successful append whose timestamp is strictly greater than
\* the timestamp of every record stored before it (a record without a
\* timestamp counting as the least), the predecessor fingerprint
\* add_transaction chained the new transaction on is the one
\* verify_integrity holds when it reaches that transaction, and the audit
\* does not report the new transaction hash-invalid.
C37_BuilderAuditorAgree ==
    ( /\ last.op = "add_transaction"
      /\ last.code = 201
      /\ txs[Len(txs)] = last.tx
      /\ \A i \in 1..(Len(txs) - 1) : SortKey(txs[i]) < TimeRank(last.tx.t) )
        => /\ last.prev_hash = PredecessorUsed(sorted(txs), Len(txs))
           /\ ~ReportedHashInvalid(Audit(txs), last.tx)

-----------------------------------------------------------------------------

\* The parties named as sender or recipient in stored.
PartiesIn(stored) ==
    {stored[i].p1 : i \in 1..Len(stored)} \cup {stored[i].p2 : i \in 1..Len(stored)}

RECURSIVE SumOfBalances(_, _)
SumOfBalances(stored, people) ==
    IF people = {} THEN 0
    ELSE LET p == CHOOSE q \in people : TRUE
         IN  BalanceOf(stored, p) + SumOfBalances(stored, people \ {p})

\* Every record of stored has a sender, a recipient and an amount.
BalancesComputable(stored) ==
    \A i \in 1..Len(stored) : {"p1", "p2", "a"} \subseteq DOMAIN stored[i]

\* C38: on a ledger whose records all have sender, recipient and an integer
\* amount, the balances of the parties named in the ledger add up to zero,
\* and the append of a transfer from a party to itself leaves the balance
\* of every party as it was; GET /balance answers with that balance.
C38_BalancesSumToZero ==
    BalancesComputable(txs) =>
        /\ SumOfBalances(txs, PartiesIn(txs)) = 0
        /\ ( /\ last.op = "add_transaction"
             /\ last.code = 201
             /\ last.tx.p1 = last.tx.p2
             /\ txs[Len(txs)] = last.tx )
              => \A p \in Parties :
                    BalanceOf(txs, p) = BalanceOf(SubSeq(txs, 1, Len(txs) - 1), p)
        /\ (last.op = "balance" /\ last.code = 200)
              => last.balance = BalanceOf(txs, last.person)

\* On a ledger holding a transfer from "b" to "a" and a transfer from "a"
\* to itself, GET /balance/a has answered with the amount received from "b".
C38_Witness ==
    /\ last.op = "balance"
    /\ last.code = 200
    /\ last.person = "a"
    /\ Len(txs) = 2
    /\ \E i, j \in 1..2 :
          /\ txs[i].p1 = "a" /\ txs[i].p2 = "a"
          /\ txs[j].p1 = "b" /\ txs[j].p2 = "a"
          /\ last.balance = txs[j].a

====
